---- MODULE Spec2Model ----
(***************************************************************************)
(* go-ctxize: threading a new leading parameter through a function's       *)
(* declaration and its call sites.  The model follows the packages-based   *)
(* implementation (App.Load / App.Rewrite / App.Each).                     *)
(*                                                                         *)
(* Strings that the code compares (package paths, type names, function     *)
(* names, FuncSpec.String, types.TypeString) are sequences of one-letter   *)
(* strings, so that concatenation and trimming are computed, not assumed.  *)
(***************************************************************************)
EXTENDS Integers, Sequences, FiniteSets, TLC

VARIABLES
    varSpec,    \* app.VarSpec after Load (resolved package and type included)
    src,        \* the loaded program as type-checked: what each use resolves to
    args,       \* CallExpr.Args of every call expression
    params,     \* FuncDecl.Type.Params.List of every function declaration
    body,       \* FuncDecl.Body.List of every function declaration
    scopes,     \* pkg.TypesInfo.Scopes[decl.Type], per package and declaration
    imports,    \* the import paths of every file
    modified,   \* app.modified
    pc,         \* "idle", or "callers" while rewriteCallers is looping
    cur,        \* the running Rewrite: its spec and the uses visited so far
    last,       \* locals of the last step (chosen identifier, usedExisting, ...)
    ret,        \* what the last Rewrite returned
    nRewrites,  \* how many times Rewrite has been called
    pre,        \* the syntax trees as they were when the running Rewrite began
    mIn,        \* matcher harness: the (FuncSpec, *types.Func) pair under test
    mOut,       \* matcher harness: <<>> before the call, then <<result>>
    env,        \* what is wrong with the packages asked for, if anything
    argv,       \* the command line: the -var string and the arguments
    loaded,     \* "no" before Load, then what Load returned
    each,       \* the running or last Each: files still to range over, result
    called,     \* the files the callback of that Each was invoked with, in order
    mainPc,     \* where the command's main is ("none": the library is used directly)
    pIn,        \* parser harness: the function under test and its argument
    pOut        \* parser harness: <<>> before the call, then <<result>>

mvars == <<mIn, mOut, pIn, pOut>>
avars == <<varSpec, src, args, params, body, scopes, imports, modified,
           pc, cur, last, ret, nRewrites, pre>>
evars == <<env, argv, loaded, each, called, mainPc>>
vars == <<varSpec, src, args, params, body, scopes, imports, modified,
          pc, cur, last, ret, nRewrites, pre, mIn, mOut,
          env, argv, loaded, each, called, mainPc, pIn, pOut>>

(***************************************************************************)
(* Bounds                                                                  *)
(***************************************************************************)
MaxPathLen == 3     \* longest package path (in letters) given to the matcher
MaxArity == 1       \* most parameters the target function is declared with
MaxRewrites == 2    \* most calls of App.Rewrite in one run
MaxEach == 1        \* most calls of App.Each in one run
MaxFuncLen == 5     \* longest string given to ParseFuncSpec
MaxRawLen == 7      \* longest arbitrary string given to ParseVarSpec
MaxVarPath == 3     \* longest package path of a composed variable spec

(***************************************************************************)
(* Strings                                                                 *)
(***************************************************************************)
Dot == <<".">>
Star == <<"*">>
Empty == <<>>

\* strings.TrimLeft(x, "*"): drop every leading character of the cutset
RECURSIVE TrimLeft(_, _)
TrimLeft(x, cut) ==
    IF x # <<>> /\ Head(x) = cut THEN TrimLeft(Tail(x), cut) ELSE x

\* all sequences over S of length 1..n
RECURSIVE SeqsUpTo(_, _)
SeqsUpTo(S, n) ==
    IF n = 0 THEN {}
    ELSE LET shorter == SeqsUpTo(S, n - 1)
         IN  {<<c>> : c \in S} \cup shorter
             \cup {Append(s, c) : s \in shorter, c \in S}

\* an import path: path elements do not begin or end with a dot
IsPath(s) ==
    /\ s # <<>>
    /\ s[1] # "." /\ s[Len(s)] # "."
    /\ \A i \in 1..(Len(s) - 1) : ~(s[i] = "." /\ s[i + 1] = ".")

PathLetters == {"a", "T", "."}
PkgPaths == {s \in SeqsUpTo(PathLetters, MaxPathLen) : IsPath(s)}
TypeNames == {<<"T">>, <<"U">>}
FuncNames == {<<"F">>, <<"M">>}

(***************************************************************************)
(* ParseFuncSpec and ParseVarSpec: the two regular expressions, matched as *)
(* regexp does (leftmost match, a lazy group as short and a greedy one as  *)
(* long as the rest of the pattern allows)                                 *)
(***************************************************************************)
Digits == {"0", "1", "2", "3", "4", "5", "6", "7", "8", "9"}
Space == " "

\* [\pL_]: a letter or the underscore (every character in use that is no
\* digit, space or punctuation is a letter)
IsLetter(c) == c \notin Digits \cup {".", "/", " ", "=", "(", ")", "*", "-"}

\* every character of x[from..to] is a letter, and there is one
LetterRun(x, from, to) ==
    from <= to /\ \A i \in from..to : IsLetter(x[i])

\* the index of the last letter of the longest run of letters that starts at
\* from (from - 1 when x[from] is no letter)
RunEnd(x, from) ==
    LET stops == {i \in from..Len(x) : ~IsLetter(x[i])}
    IN  IF stops = {} THEN Len(x)
        ELSE (CHOOSE i \in stops : \A j \in stops : i <= j) - 1

\* the index of the first character at or after from that is no space
\* (Len(x) + 1 when there is none)
SkipSpaces(x, from) ==
    LET rest == {i \in from..Len(x) : x[i] # Space}
    IN  IF rest = {} THEN Len(x) + 1
        ELSE CHOOSE i \in rest : \A j \in rest : i <= j

\* strings.TrimSpace
TrimSpace(x) ==
    LET keep == {i \in 1..Len(x) : x[i] # Space}
    IN  IF keep = {} THEN <<>>
        ELSE SubSeq(x, CHOOSE i \in keep : \A j \in keep : i <= j,
                       CHOOSE i \in keep : \A j \in keep : i >= j)

NoSpec == [ok |-> FALSE]

\* rxFuncSpec with (.+?) = x[1..k]: the rest is ".<letters>.<letters>"
FuncRestTyped(x, k) ==
    /\ k + 1 <= Len(x) /\ x[k + 1] = "."
    /\ LET e == RunEnd(x, k + 2)
       IN  /\ e >= k + 2
           /\ e + 1 <= Len(x) /\ x[e + 1] = "."
           /\ LetterRun(x, e + 2, Len(x))

\* rxFuncSpec with (.+?) = x[1..k]: the rest is ".<letters>"
FuncRestPlain(x, k) ==
    /\ k + 1 <= Len(x) /\ x[k + 1] = "."
    /\ LetterRun(x, k + 2, Len(x))

\* the lazy group (.+?) takes the shortest prefix the rest can follow
ShortestPrefix(ks) == CHOOSE k \in ks : \A j \in ks : k <= j

\* ParseFuncSpec
ParseFuncSpec(x) ==
    LET ks == {k \in 1..Len(x) : FuncRestTyped(x, k) \/ FuncRestPlain(x, k)}
    IN  IF ks = {} THEN NoSpec
        ELSE LET k == ShortestPrefix(ks)
                 e == RunEnd(x, k + 2)
             IN  IF FuncRestTyped(x, k)
                 THEN [ok |-> TRUE, PkgPath |-> SubSeq(x, 1, k),
                       TypeName |-> SubSeq(x, k + 2, e),
                       FuncName |-> SubSeq(x, e + 2, Len(x))]
                 ELSE [ok |-> TRUE, PkgPath |-> SubSeq(x, 1, k),
                       TypeName |-> <<>>,
                       FuncName |-> SubSeq(x, k + 2, Len(x))]

\* rxVarSpec on the trimmed string t, with the name ending at i, the path
\* beginning at a and the dot before the type name at d: the path holds no
\* space, letters follow the dot, then spaces, "=", spaces and an expression
VarRest(t, a, d) ==
    /\ d > a /\ d <= Len(t) /\ t[d] = "."
    /\ \A i \in a..(d - 1) : t[i] # Space
    /\ LET e == RunEnd(t, d + 1)
           q == SkipSpaces(t, e + 1)
       IN  /\ e >= d + 1
           /\ q <= Len(t) /\ t[q] = "="
           /\ SkipSpaces(t, q + 1) <= Len(t)

\* a plausible slip: the type name is what follows the first dot
FirstDot(t, a) ==
    LET ds == {d \in (a + 1)..Len(t) : t[d] = "."}
    IN  IF ds = {} THEN 0 ELSE CHOOSE d \in ds : \A j \in ds : d <= j

\* the dot the lazy path group (\S+?) stops at: the first the rest of the
\* pattern can follow (0 when there is none)
PathEnd(t, a) ==
    LET ds == {d \in (a + 1)..Len(t) : VarRest(t, a, d)}
    IN  IF ds = {} THEN 0 ELSE CHOOSE d \in ds : \A j \in ds : d <= j

\* ParseVarSpec
ParseVarSpec(x) ==
    LET t == TrimSpace(x)
        i == RunEnd(t, 1)
        a == SkipSpaces(t, i + 1)
        d == PathEnd(t, a)
        e == RunEnd(t, d + 1)
        q == SkipSpaces(t, e + 1)
        r == SkipSpaces(t, q + 1)
    IN  IF i < 1 \/ a < i + 2 \/ a > Len(t) \/ d = 0 THEN NoSpec
        ELSE [ok |-> TRUE, Name |-> SubSeq(t, 1, i), PkgPath |-> SubSeq(t, a, d - 1),
              TypeName |-> SubSeq(t, d + 1, e), InitExpr |-> SubSeq(t, r, Len(t))]

(***************************************************************************)
(* FuncSpec and the symbol matcher                                         *)
(***************************************************************************)
\* FuncSpec{PkgPath, TypeName, FuncName, pkg}; pkg is the PkgPath of the
\* package resolvePackage returned for PkgPath.
FuncSpec(path, typeName, funcName) ==
    [PkgPath |-> path, TypeName |-> typeName, FuncName |-> funcName, pkg |-> path]

\* a *types.Func: defining package path, receiver ("none", "value", "pointer"),
\* receiver's named type and the function name
Func(path, recv, typ, name) ==
    [pkg |-> path, recv |-> recv, typ |-> typ, name |-> name]

FuncSpecs ==
    {FuncSpec(p, t, f) : p \in PkgPaths, t \in TypeNames \cup {Empty}, f \in FuncNames}

Funcs ==
    {Func(p, "none", Empty, f) : p \in PkgPaths, f \in FuncNames}
    \cup {Func(p, r, t, f) : p \in PkgPaths, r \in {"value", "pointer"},
                                 t \in TypeNames, f \in FuncNames}

\* FuncSpec.String
String(s) ==
    IF s.TypeName = Empty
    THEN s.pkg \o Dot \o s.FuncName
    ELSE s.pkg \o Dot \o s.TypeName \o Dot \o s.FuncName

\* types.TypeString(recv.Type(), nil): the package-qualified receiver type
TypeString(f) ==
    (IF f.recv = "pointer" THEN Star ELSE Empty) \o f.pkg \o Dot \o f.typ

\* a plausible slip: the pointer marker is not trimmed
matchesNoTrim(s, f) ==
    IF f.recv # "none"
    THEN TypeString(f) \o Dot \o f.name = String(s)
    ELSE f.pkg \o Dot \o f.name = String(s)

\* FuncSpec.matches
matches(s, f) ==
    IF f.recv # "none"
    THEN TrimLeft(TypeString(f) \o Dot \o f.name, "*") = String(s)
    ELSE f.pkg \o Dot \o f.name = String(s)

(***************************************************************************)
(* The loaded program.  packages.Load with Tests enabled returns, for a    *)
(* package with tests, the package and its test variant; both hold the     *)
(* same *ast.File for a non-test source file, each with its own TypesInfo  *)
(* (Uses, Defs, Scopes).  The fixture follows the test data: foo declares  *)
(* the target, foo_test.go and bar call it, baz calls something else.      *)
(***************************************************************************)
PathFoo == <<"a">>
PathBar == <<"T", "a">>
PathBaz == <<"T", "T">>
PathQux == <<"a", "a">>
PathDotted == <<"a", ".", "T">>     \* an import path whose last element is "a.T"
PathNone == <<"T">>                 \* a path no loaded package has

NameF == <<"F">>
NameM == <<"M">>
NameT == <<"T">>
NameG == <<"G">>
NameInit == <<"i">>                 \* "init": a package may declare it twice

Files == {"foo.go", "foo_test.go", "bar.go", "baz.go"}

\* app.pkgs, in the order Load returned them
AppPkgs == <<"foo", "foo [foo.test]", "bar", "baz">>
PkgIDs == {AppPkgs[i] : i \in 1..Len(AppPkgs)}

PkgPathOf(p) ==
    CASE p = "foo" -> PathFoo
      [] p = "foo [foo.test]" -> PathFoo
      [] p = "bar" -> PathBar
      [] p = "baz" -> PathBaz

\* pkg.Syntax
Syntax(p) ==
    CASE p = "foo" -> {"foo.go"}
      [] p = "foo [foo.test]" -> {"foo.go", "foo_test.go"}
      [] p = "bar" -> {"bar.go"}
      [] p = "baz" -> {"baz.go"}

\* function declarations (*ast.FuncDecl) and the file each lies in
Decls == {"F", "G", "I1", "I2", "TestF", "bar", "baz"}
NoDecl == "-"
DeclFile(d) ==
    CASE d = "F" -> "foo.go"
      [] d = "G" -> "foo.go"
      [] d \in {"I1", "I2"} -> "foo.go"   \* the two func init() of foo.go
      [] d = "TestF" -> "foo_test.go"
      [] d = "bar" -> "bar.go"
      [] d = "baz" -> "baz.go"

\* call expressions (*ast.CallExpr), the declaration around each and its file
Calls == {"r1", "g1", "t1", "b1", "b2", "z1", "zg", "zv"}
NoCall == "-"
CallDecl(c) ==
    CASE c = "r1" -> "F"
      [] c = "g1" -> "G"
      [] c = "t1" -> "TestF"
      [] c \in {"b1", "b2"} -> "bar"
      [] c \in {"z1", "zg"} -> "baz"
      [] c = "zv" -> NoDecl         \* initializer of a package-level var
CallFile(c) ==
    IF c = "zv" THEN "baz.go" ELSE DeclFile(CallDecl(c))

\* identifier occurrences that resolve to a function (keys of TypesInfo.Uses)
Uses == {"r1", "g1", "t1", "b1", "b2", "z1", "x1"}

\* the shapes the extra use x1 of baz.go can have
XKinds == {"absent", "nocall", "nodecl", "value"}

\* the innermost call expression around a use, NoCall when there is none
UseCall(u, xkind) ==
    IF u # "x1" THEN u
    ELSE CASE xkind = "nocall" -> NoCall    \* f := foo.F
           [] xkind = "nodecl" -> "zv"      \* var v = foo.F()
           [] xkind = "value" -> "zg"       \* g(foo.F)
           [] OTHER -> NoCall

\* the function declaration around a use, NoDecl when there is none
UseDecl(u, xkind) ==
    IF u # "x1" THEN CallDecl(u)
    ELSE IF xkind = "nodecl" THEN NoDecl ELSE "baz"

UseFile(u) ==
    IF u = "x1" THEN "baz.go" ELSE CallFile(u)

\* the keys of pkg.TypesInfo.Uses that resolve to functions
UsesOf(p, xkind) ==
    {u \in Uses : UseFile(u) \in Syntax(p) /\ (u = "x1" => xkind # "absent")}

\* the function symbols of the fixture
Target(kind) ==
    CASE kind = "func" -> Func(PathFoo, "none", Empty, NameF)
      [] kind = "pointer" -> Func(PathFoo, "pointer", NameT, NameM)
Kinds == {"func", "pointer"}

\* a function of the same name as the target, declared in another package
Other(kind) == Func(PathQux, "none", Empty, Target(kind).name)
\* the function M of the package whose import path is "a.T"
Collide == Func(PathDotted, "none", Empty, NameM)

\* what each use may resolve to
Callees(u, kind) ==
    CASE u \in {"t1", "b1"} -> {Target(kind)}
      [] u = "x1" -> {Target(kind)}
      [] u \in {"r1", "g1", "b2"} -> {Target(kind), Other(kind)}
      [] u = "z1" -> IF kind = "func" THEN {Other(kind)} ELSE {Collide}

\* the name a declaration declares
DeclName(d) == IF d \in {"I1", "I2"} THEN NameInit ELSE <<d>>

\* the keys of pkg.TypesInfo.Defs that are functions: symbol and declaration
DefsOf(p, kind) ==
    {[sym |-> IF d = "F" THEN Target(kind)
              ELSE Func(PkgPathOf(p), "none", Empty, DeclName(d)),
      decl |-> d] : d \in {d \in Decls : DeclFile(d) \in Syntax(p)}}

(***************************************************************************)
(* VarSpec                                                                 *)
(***************************************************************************)
\* the default of Load, a default with an initializer that does not parse,
\* and the one of TestRewriteWithVarSpec
DefaultVarSpec ==
    [Name |-> "ctx", PkgPath |-> "context", TypeName |-> "Context",
     InitExpr |-> "context.TODO()", pkgName |-> "context",
     typ |-> "context.Context"]
BadInitVarSpec == [DefaultVarSpec EXCEPT !.InitExpr = "context.TODO("]
QuxVarSpec ==
    [Name |-> "t", PkgPath |-> "go-qux", TypeName |-> "T",
     InitExpr |-> "0", pkgName |-> "qux", typ |-> "qux.T"]
VarSpecs == {DefaultVarSpec, BadInitVarSpec, QuxVarSpec}

\* parser.ParseExpr succeeds
\* a plausible slip: every string is taken for an expression
AnyExprOK(e) == TRUE

ParseExprOK(e) == e \in {"context.TODO()", "0"}

\* varTypeObj.Type().Underlying() is a *types.Interface
IsInterface(typ) == typ = "context.Context"

\* types.Implements(t, iface) for the interface context.Context
Implements(t) == t \in {"context.Context", "ctxImpl"}

(***************************************************************************)
(* Scopes                                                                  *)
(***************************************************************************)
\* an object of a scope: its name, its type, the statement that declares it
\* (0: none in the body, as for a parameter or an object Rewrite inserted)
Obj(name, typ, stmt) == [name |-> name, typ |-> typ, stmt |-> stmt]
NoObj == [name |-> "", typ |-> "", stmt |-> 0]

\* scope.Lookup
Lookup(scope, name) ==
    IF \E o \in scope : o.name = name
    THEN CHOOSE o \in scope : o.name = name
    ELSE NoObj

\* the order of sort.Strings on the names in use
NameRank(n) ==
    CASE n = "c" -> 1 [] n = "ctx" -> 2 [] n = "t" -> 3 [] OTHER -> 4

\* scope.Names(): the names of the scope, sorted
RECURSIVE SortedNames(_)
SortedNames(ns) ==
    IF ns = {} THEN <<>>
    ELSE LET n == CHOOSE n \in ns : \A m \in ns : NameRank(n) <= NameRank(m)
         IN  <<n>> \o SortedNames(ns \ {n})
Names(scope) == SortedNames({o.name : o \in scope})

\* the pairs (package, declaration) that have an entry in TypesInfo.Scopes
ScopeKeys == {<<p, d>> \in PkgIDs \X Decls : DeclFile(d) \in Syntax(p)}

(***************************************************************************)
(* Statements and parameters                                               *)
(***************************************************************************)
\* a statement of a body: tok is ":=" for a short variable declaration
Stmt(id, tok, lhs, rhs) == [id |-> id, tok |-> tok, lhs |-> lhs, rhs |-> rhs]
CallStmt(c) == Stmt(10, "expr", <<>>, c)

\* the shapes a caller's body can start with
ScopeKinds == {"plain", "impl", "clash"}
Prelude(k, vs) ==
    CASE k = "plain" -> <<>>
      [] k = "impl" -> <<Stmt(1, ":=", <<"c">>, "newCtx()")>>
      [] k = "clash" -> <<Stmt(1, ":=", <<vs.Name>>, "\"\"")>>
      [] k = "stub" -> <<Stmt(1, ":=", <<vs.Name>>, "context.TODO()")>>
      [] k = "multi" -> <<Stmt(1, ":=", <<vs.Name, "x">>, "context.TODO(), 1")>>
      [] k = "var" -> <<Stmt(1, "var", <<vs.Name>>, "context.TODO()")>>
      [] k = "param" -> <<>>
      [] k = "late" -> <<>>
      [] k = "same" -> <<Stmt(1, ":=", <<vs.Name>>, "newVar()")>>
PreludeScope(k, vs) ==
    CASE k = "plain" -> {}
      [] k = "impl" -> {Obj("c", "ctxImpl", 1)}
      [] k = "clash" -> {Obj(vs.Name, "string", 1)}
      [] k = "stub" -> {Obj(vs.Name, "context.Context", 1)}
      [] k = "multi" -> {Obj(vs.Name, "context.Context", 1), Obj("x", "int", 1)}
      [] k = "var" -> {Obj(vs.Name, "context.Context", 1)}
      [] k = "param" -> {Obj(vs.Name, "context.Context", 0)}
      [] k = "late" -> {Obj("c", "ctxImpl", 3)}
      [] k = "same" -> {Obj(vs.Name, vs.typ, 1)}

\* what a body of shape k ends with: "c := newCtx()" after the calls
Epilogue(k, vs) ==
    IF k = "late" THEN <<Stmt(3, ":=", <<"c">>, "newCtx()")>> ELSE <<>>

\* the i-th declared parameter and the i-th argument of a call
Field(name, pkg, typ) == [name |-> name, pkg |-> pkg, typ |-> typ]
OldParams(n) == [i \in 1..n |-> Field("p" \o ToString(i), "", "int")]
OldArgs(n) == [i \in 1..n |-> "x" \o ToString(i)]

(***************************************************************************)
(* Init: the state after a successful Load of foo, bar and baz             *)
(***************************************************************************)
\* TypesInfo.Uses restricted to the function uses: what each resolves to
CalleeMaps(k) ==
    {f \in [Uses -> {Target(k), Other(k), Collide}] :
        \A u \in Uses : f[u] \in Callees(u, k)}

Sources ==
    UNION {{[kind |-> k, arity |-> a, xkind |-> x, scopeF |-> sf,
             scopeBar |-> sb, callee |-> f] :
                a \in 0..MaxArity, x \in XKinds, sf \in {"plain", "stub"},
                sb \in ScopeKinds, f \in CalleeMaps(k)} : k \in Kinds}

\* the use whose identifier is the Fun of a call expression, if any
CalleeOf(s, c) ==
    CASE c \in Uses -> s.callee[c]
      [] c = "zv" -> s.callee["x1"]
      [] c = "zg" -> Func(PathBaz, "none", Empty, <<"g">>)

InitArgs(s) ==
    [c \in Calls |-> IF CalleeOf(s, c) = Target(s.kind)
                     THEN OldArgs(s.arity) ELSE OldArgs(1)]

InitParams(s) ==
    [d \in Decls |->
        CASE d = "F" -> OldParams(s.arity)
          [] d = "TestF" -> <<Field("t", "testing", "*T")>>
          [] OTHER -> <<>>]

InitBody(s, vs) ==
    [d \in Decls |->
        CASE d = "F" -> Prelude(s.scopeF, vs) \o <<CallStmt("r1")>>
                        \o Epilogue(s.scopeF, vs)
          [] d = "G" -> <<CallStmt("g1")>>
          [] d \in {"I1", "I2"} -> <<>>
          [] d = "TestF" -> <<CallStmt("t1")>>
          [] d = "bar" -> Prelude(s.scopeBar, vs) \o <<CallStmt("b1"), CallStmt("b2")>>
                          \o Epilogue(s.scopeBar, vs)
          [] d = "baz" -> <<CallStmt("z1")>> \o
                (CASE s.xkind = "nocall" -> <<Stmt(2, ":=", <<"f">>, "x1")>>
                   [] s.xkind = "value" -> <<CallStmt("zg")>>
                   [] OTHER -> <<>>)]

InitScope(s, vs, d) ==
    CASE d = "F" -> PreludeScope(s.scopeF, vs)
                    \cup {Obj(OldParams(s.arity)[i].name, "int", 0) : i \in 1..s.arity}
      [] d = "TestF" -> {Obj("t", "*testing.T", 0)}
      [] d = "bar" -> PreludeScope(s.scopeBar, vs)
      [] d = "baz" -> IF s.xkind = "nocall" THEN {Obj("f", "func", 2)} ELSE {}
      [] OTHER -> {}

Snapshot ==
    [args |-> args, params |-> params, body |-> body, scopes |-> scopes,
     imports |-> imports, modified |-> modified]

NoCur == [spec |-> FuncSpec(Empty, Empty, Empty), decl |-> NoDecl, visited |-> {}]
NoLast == [op |-> "none", pkg |-> "", use |-> "", call |-> NoCall, decl |-> NoDecl,
           varName |-> "", usedExisting |-> FALSE, inserted |-> FALSE,
           err |-> "nil", order |-> <<>>]

\* no parser is under test
ParseIdle ==
    /\ pIn = [fn |-> "none", s |-> <<>>, parts |-> <<>>]
    /\ pOut = <<>>

MatchIdle ==
    /\ mIn = [spec |-> FuncSpec(PathFoo, Empty, NameF), fn |-> Target("func")]
    /\ mOut = <<>>

\* Each has not been called
EachIdle ==
    [pc |-> "idle", files |-> {}, left |-> {}, ret |-> "none", n |-> 0,
     k |-> 0, at |-> "-", o |-> "none"]

\* Load has returned nil for packages without fault; Each was not called
\* no command line
NoArgv == [var |-> <<>>, args |-> <<>>]

AppReady ==
    /\ env = "none"
    /\ argv = NoArgv
    /\ loaded = "nil"
    /\ each = EachIdle
    /\ called = <<>>
    /\ mainPc = "none"

Init ==
    /\ varSpec \in VarSpecs
    /\ src \in Sources
    /\ args = InitArgs(src)
    /\ params = InitParams(src)
    /\ body = InitBody(src, varSpec)
    /\ scopes = [k \in ScopeKeys |-> InitScope(src, varSpec, k[2])]
    /\ imports = [f \in Files |->
                    IF f = "foo.go" /\ src.scopeF = "stub" THEN {"context"} ELSE {}]
    /\ modified = {}
    /\ pc = "idle"
    /\ cur = NoCur
    /\ last = NoLast
    /\ ret = "none"
    /\ nRewrites = 0
    /\ pre = Snapshot
    /\ MatchIdle
    /\ ParseIdle
    /\ AppReady

(***************************************************************************)
(* Tree edits                                                              *)
(***************************************************************************)
\* a plausible slip: the identifier is added after the existing arguments
AppendArg(as, id) == Append(as, id)

\* callExpr.Args = append([]ast.Expr{ast.NewIdent(varName)}, callExpr.Args...)
PrependArg(as, id) == <<id>> \o as

\* a plausible slip: the parameter is added after the existing parameters
AppendParam(ps, f) == Append(ps, f)

\* funcDecl.Type.Params.List = append([]*ast.Field{...}, Params.List...)
PrependParam(ps, f) == <<f>> \o ps

\* a plausible slip: the statement is added at the end of the body
AppendStmt(b, s) == Append(b, s)

\* funcDecl.Body.List = append([]ast.Stmt{...}, funcDecl.Body.List...)
PrependStmt(b, s) == <<s>> \o b

\* astutil.AddImport(fset, file, path)
AddImport(imps, file, path) == [imps EXCEPT ![file] = @ \cup {path}]

\* a plausible slip: the file is found and not recorded
markNone(f) == "-"

\* markModified: the loaded file whose span holds a position of file f
markModified(f) ==
    IF \E i \in 1..Len(AppPkgs) : f \in Syntax(AppPkgs[i]) THEN f ELSE "-"

(***************************************************************************)
(* findScope, rewriteCallExpr, ensureVar                                   *)
(***************************************************************************)
\* findScope for a position whose innermost function declaration is d
findScope(p, d) ==
    IF d = NoDecl THEN [err |-> "no surrounding FuncDecl found", decl |-> NoDecl]
    ELSE IF <<p, d>> \notin ScopeKeys THEN [err |-> "no Scope found", decl |-> d]
    ELSE [err |-> "nil", decl |-> d]

\* a plausible slip: an existing binding is never looked for
NoReuse(scope, vs) == ""

\* the first name of scope.Names() whose object implements the interface;
\* "" when the variable's type is no interface or nothing implements it
FirstImplementing(scope, vs) ==
    LET ns == Names(scope)
        hits == {i \in 1..Len(ns) : Implements(Lookup(scope, ns[i]).typ)}
    IN  IF IsInterface(vs.typ) /\ hits # {}
        THEN ns[CHOOSE i \in hits : \A j \in hits : i <= j]
        ELSE ""

\* a plausible slip: a use that is no call is passed over without an error
skipCallExpr(t, scope, c) ==
    [err |-> "nil", usedExisting |-> TRUE, varName |-> "", t |-> t]

\* rewriteCallExpr(scope, pos) on the trees t: the locals and the new trees
rewriteCallExpr(t, scope, c) ==
    IF c = NoCall
    THEN [err |-> "could not find function call expression", usedExisting |-> FALSE,
          varName |-> "", t |-> t]
    ELSE LET found == FirstImplementing(scope, varSpec)
             usedExisting == found # ""
             varName == IF found = "" THEN varSpec.Name ELSE found
             file == markModified(CallFile(c))
         IN  [err |-> "nil", usedExisting |-> usedExisting, varName |-> varName,
              t |-> [t EXCEPT
                  !.args = [@ EXCEPT ![c] = PrependArg(@, varName)],
                  !.modified = IF file # "-" THEN @ \cup {file} ELSE @,
                  !.imports = IF file # "-" /\ ~usedExisting
                              THEN AddImport(@, file, varSpec.PkgPath) ELSE @]]

\* scope.Lookup(app.VarSpec.Name) != nil
Declared(scope, name) == Lookup(scope, name) # NoObj

\* ensureVar(pkg, scope, funcDecl, pos) on the trees t, for the use u of
\* declaration d in package p
ensureVar(t, p, d, u) ==
    IF Declared(t.scopes[<<p, d>>], varSpec.Name)
    THEN [err |-> "nil", inserted |-> FALSE, t |-> t]
    ELSE LET t1 == [t EXCEPT !.scopes = [@ EXCEPT ![<<p, d>>] =
                        @ \cup {Obj(varSpec.Name, varSpec.typ, 0)}]]
             file == markModified(UseFile(u))
         IN  IF ~ParseExprOK(varSpec.InitExpr)
             THEN [err |-> "parsing InitExpr", inserted |-> FALSE, t |-> t1]
             ELSE [err |-> "nil", inserted |-> TRUE,
                   t |-> [t1 EXCEPT
                      !.body = [@ EXCEPT ![d] = PrependStmt(@,
                          Stmt(0, ":=", <<varSpec.Name>>, varSpec.InitExpr))],
                      !.modified = IF file # "-" THEN @ \cup {file} ELSE @,
                      !.imports = IF file # "-"
                                  THEN AddImport(@, file, varSpec.PkgPath) ELSE @]]

(***************************************************************************)
(* rewriteFuncDecl                                                         *)
(***************************************************************************)
\* a plausible slip: the first statement of the body is taken for the stub
dropFirstStmt(b, scope) == IF b = <<>> THEN b ELSE Tail(b)

\* a plausible slip: the stub declaration is left in the body
keepStubVarDecl(b, scope) == b

\* removeStubVarDecl: the body of d without the statement "<name> := context.TODO()"
\* that declares the variable's name in d's scope, if there is one
removeStubVarDecl(b, scope) ==
    LET obj == Lookup(scope, varSpec.Name)
        assigns == {i \in 1..Len(b) : b[i].id = obj.stmt /\ b[i].tok \in {":=", "="}}
    IN  IF varSpec.PkgPath # "context" \/ varSpec.TypeName # "Context" THEN b
        ELSE IF obj = NoObj \/ obj.stmt = 0 \/ assigns = {} THEN b
        ELSE LET i == CHOOSE i \in assigns : TRUE
             IN  IF /\ b[i].tok = ":="
                    /\ Len(b[i].lhs) = 1
                    /\ b[i].rhs = "context.TODO()"
                 THEN SubSeq(b, 1, i - 1) \o SubSeq(b, i + 1, Len(b))
                 ELSE b

\* resolvePackage: the package of app.pkgs whose ID is the one the path loads as
resolvePackage(path) ==
    {AppPkgs[i] : i \in {i \in 1..Len(AppPkgs) :
        /\ PkgPathOf(AppPkgs[i]) = path
        /\ AppPkgs[i] \in {"foo", "bar", "baz"}}}

\* the specs Rewrite is called with
RewriteSpecs ==
    {FuncSpec(PathFoo, Empty, NameF), FuncSpec(PathFoo, NameT, NameM),
     FuncSpec(PathNone, Empty, NameF)}

\* a plausible slip: the defined symbols are not filtered by the spec
AllDefs(spec, p) == DefsOf(p, src.kind)

\* the matching entries of spec.pkg.TypesInfo.Defs
MatchingDefs(spec, p) == {e \in DefsOf(p, src.kind) : matches(spec, e.sym)}

\* the orders in which the range over the map can yield the entries S
Orders(S) ==
    {q \in [1..Cardinality(S) -> S] : \A i, j \in 1..Cardinality(S) : q[i] = q[j] => i = j}

\* a plausible slip: the loop runs to its end and the last match stays
LastMatch(order) == order[Len(order)]

\* the loop breaks at the first matching entry the range yields
FirstMatch(order) == order[1]

Fail(op, e) ==
    /\ pc' = "idle"
    /\ ret' = e
    /\ cur' = NoCur
    /\ last' = [NoLast EXCEPT !.op = op, !.err = e]

\* App.Rewrite up to the start of rewriteCallers' loop: resolvePackage and
\* rewriteFuncDecl
Rewrite(spec) ==
    /\ pc = "idle"
    /\ nRewrites < MaxRewrites
    /\ nRewrites' = nRewrites + 1
    /\ pre' = Snapshot
    /\ UNCHANGED <<varSpec, src, mIn, mOut, pIn, pOut>>
    /\ UNCHANGED evars
    /\ IF resolvePackage(spec.PkgPath) = {}
       THEN /\ Fail("resolve", "cannot resolve package")
            /\ UNCHANGED <<args, params, body, scopes, imports, modified>>
       ELSE LET p == CHOOSE p \in resolvePackage(spec.PkgPath) : TRUE
                s == [spec EXCEPT !.pkg = PkgPathOf(p)]
            IN  IF MatchingDefs(s, p) = {}
                THEN /\ Fail("decl", "could not find declaration")
                     /\ UNCHANGED <<args, params, body, scopes, imports, modified>>
                ELSE \E order \in Orders(MatchingDefs(s, p)) :
                       LET e == FirstMatch(order)
                           fs == findScope(p, e.decl)
                           d == e.decl
                           file == markModified(DeclFile(d))
                       IN  IF fs.err # "nil"
                           THEN /\ Fail("decl", fs.err)
                                /\ UNCHANGED <<args, params, body, scopes,
                                               imports, modified>>
                           ELSE /\ params' = [params EXCEPT ![d] = PrependParam(@,
                                        Field(varSpec.Name, varSpec.pkgName,
                                              varSpec.TypeName))]
                                /\ body' = [body EXCEPT ![d] =
                                        removeStubVarDecl(@, scopes[<<p, d>>])]
                                /\ modified' = IF file # "-"
                                               THEN modified \cup {file} ELSE modified
                                /\ imports' = IF file # "-"
                                              THEN AddImport(imports, file, varSpec.PkgPath)
                                              ELSE imports
                                /\ pc' = "callers"
                                /\ cur' = [spec |-> s, decl |-> d, visited |-> {}]
                                /\ last' = [NoLast EXCEPT !.op = "decl", !.pkg = p,
                                                          !.decl = d, !.order = order]
                                /\ ret' = "running"
                                /\ UNCHANGED <<args, scopes>>

(***************************************************************************)
(* rewriteCallers                                                          *)
(***************************************************************************)
\* a plausible slip: the uses in test files are passed over
PendingNoTestFiles(p) ==
    {u \in UsesOf(p, src.xkind) :
        /\ matches(cur.spec, src.callee[u]) /\ <<p, u>> \notin cur.visited
        /\ UseFile(u) # "foo_test.go"}

\* a plausible slip: the loop does not ask whether the function matches
PendingAll(p) ==
    {u \in UsesOf(p, src.xkind) : <<p, u>> \notin cur.visited}

\* the uses of package p the loop has still to handle: keys of Uses whose
\* object is a function that matches
Pending(p) ==
    {u \in UsesOf(p, src.xkind) :
        matches(cur.spec, src.callee[u]) /\ <<p, u>> \notin cur.visited}

\* the package the outer loop is at: the first with a use still to handle
\* (no package once every loop is over, or when rewriteCallers is not running)
CurrentPkg ==
    IF pc # "callers" THEN {}
    ELSE LET left == {i \in 1..Len(AppPkgs) : Pending(AppPkgs[i]) # {}}
         IN  {AppPkgs[i] : i \in {i \in left : \A j \in left : i <= j}}

\* one iteration of the inner loop of rewriteCallers, for a matching use u of
\* package p; map iteration picks any of those left
Visit(p, u) ==
    /\ pc = "callers"
    /\ p \in CurrentPkg
    /\ u \in Pending(p)
    /\ LET d == UseDecl(u, src.xkind)
           c == UseCall(u, src.xkind)
           fs == findScope(p, d)
           t0 == [args |-> args, body |-> body, scopes |-> scopes,
                  imports |-> imports, modified |-> modified]
           rc == rewriteCallExpr(t0, scopes[<<p, d>>], c)
           ev == ensureVar(rc.t, p, d, u)
           frame == [NoLast EXCEPT !.op = "visit", !.pkg = p, !.use = u,
                                   !.call = c, !.decl = d]
           Set(t) == /\ args' = t.args
                     /\ body' = t.body
                     /\ scopes' = t.scopes
                     /\ imports' = t.imports
                     /\ modified' = t.modified
       IN  IF fs.err # "nil"
           THEN /\ Set(t0)
                /\ pc' = "idle" /\ ret' = fs.err /\ cur' = NoCur
                /\ last' = [frame EXCEPT !.err = fs.err]
           ELSE IF rc.err # "nil"
           THEN /\ Set(t0)
                /\ pc' = "idle" /\ ret' = rc.err /\ cur' = NoCur
                /\ last' = [frame EXCEPT !.err = rc.err]
           ELSE IF rc.usedExisting
           THEN /\ Set(rc.t)
                /\ cur' = [cur EXCEPT !.visited = @ \cup {<<p, u>>}]
                /\ last' = [frame EXCEPT !.varName = rc.varName,
                                         !.usedExisting = TRUE]
                /\ UNCHANGED <<pc, ret>>
           ELSE IF ev.err # "nil"
           THEN /\ Set(ev.t)
                /\ pc' = "idle" /\ ret' = ev.err /\ cur' = NoCur
                /\ last' = [frame EXCEPT !.varName = rc.varName, !.err = ev.err]
           ELSE /\ Set(ev.t)
                /\ cur' = [cur EXCEPT !.visited = @ \cup {<<p, u>>}]
                /\ last' = [frame EXCEPT !.varName = rc.varName,
                                         !.inserted = ev.inserted]
                /\ UNCHANGED <<pc, ret>>
    /\ UNCHANGED <<varSpec, src, params, nRewrites, pre, mIn, mOut, pIn, pOut>>
    /\ UNCHANGED evars

\* the loops of rewriteCallers are over: Rewrite returns nil
Return ==
    /\ pc = "callers"
    /\ CurrentPkg = {}
    /\ pc' = "idle"
    /\ ret' = "nil"
    /\ last' = [NoLast EXCEPT !.op = "return"]
    /\ UNCHANGED <<varSpec, src, args, params, body, scopes, imports, modified,
                   cur, nRewrites, pre, mIn, mOut, pIn, pOut>>
    /\ UNCHANGED evars

Next ==
    \/ \E spec \in RewriteSpecs : Rewrite(spec)
    \/ \E p \in CurrentPkg : \E u \in Pending(p) : Visit(p, u)
    \/ Return

Spec == Init /\ [][Next]_vars


(***************************************************************************)
(* Properties of Rewrite                                                   *)
(***************************************************************************)
\* the step is one iteration of rewriteCallers' loop
IsVisit == pc = "callers" /\ last'.op = "visit"
\* the step is a Rewrite whose rewriteFuncDecl succeeded
IsDeclRewrite == pc = "idle" /\ pc' = "callers"

\* the parameter rewriteFuncDecl adds
NewField == Field(varSpec.Name, varSpec.pkgName, varSpec.TypeName)
\* the statement ensureVar adds
NewStmt == Stmt(0, ":=", <<varSpec.Name>>, varSpec.InitExpr)

\* the uses the type checker recorded
Present(u) == u = "x1" => src.xkind # "absent"

\* C1: whenever a call expression's argument list changes, the step is a visit
\* of rewriteCallers to that call, and the new list is the chosen identifier
\* followed by the old arguments in their order (so one longer, also from zero).
C1_ArgPrepended ==
    [][\A c \in Calls : args'[c] # args[c] =>
            /\ IsVisit
            /\ last'.call = c
            /\ last'.varName # ""
            /\ Len(args'[c]) = Len(args[c]) + 1
            /\ Head(args'[c]) = last'.varName
            /\ Tail(args'[c]) = args[c]]_vars

\* C1 witness: in one run a call without arguments and a call with an argument
\* have both been rewritten
C1_Witness ==
    /\ ret = "nil"
    /\ \E c1, c2 \in Calls :
        /\ pre.args[c1] = <<>> /\ Len(args[c1]) = 1
        /\ Len(pre.args[c2]) = 1 /\ Len(args[c2]) = 2 /\ args[c2][2] = pre.args[c2][1]

\* C2: a successful rewriteFuncDecl leaves the matched declaration with the new
\* parameter (VarSpec.Name, typed <package name>.<TypeName>) first and the old
\* parameters after it in their order, and changes no other parameter list;
\* nothing else ever changes a parameter list.
C2_ParamPrepended ==
    [][/\ IsDeclRewrite =>
            LET d == cur'.decl
            IN  /\ \E e \in DefsOf(last'.pkg, src.kind) :
                        e.decl = d /\ matches(cur'.spec, e.sym)
                /\ Len(params'[d]) = Len(params[d]) + 1
                /\ Head(params'[d]) = NewField
                /\ Tail(params'[d]) = params[d]
                /\ \A o \in Decls \ {d} : params'[o] = params[o]
       /\ ~IsDeclRewrite => params' = params]_vars

\* C2 witness: F(n int) of the custom variable test has become F(t qux.T, n int)
C2_Witness ==
    /\ varSpec = QuxVarSpec
    /\ pc = "callers"
    /\ cur.decl = "F"
    /\ pre.params["F"] = <<Field("p1", "", "int")>>
    /\ params["F"] = <<Field("t", "qux", "T"), Field("p1", "", "int")>>

\* the arguments of c are its arguments at the start of the Rewrite with at
\* least one argument put in front
HasPrepended(c) ==
    /\ Len(args[c]) > Len(pre.args[c])
    /\ SubSeq(args[c], Len(args[c]) - Len(pre.args[c]) + 1, Len(args[c])) = pre.args[c]

\* C3: when Rewrite has returned nil, the declaration it matched has the new
\* parameter in front, and every use of every loaded package (test variant
\* included) that resolves to a matching function lies in a call expression
\* that got an argument prepended during this Rewrite.
C3_SuccessMeansAllRewritten ==
    ret = "nil" =>
        /\ cur.decl # NoDecl
        /\ params[cur.decl] = <<NewField>> \o pre.params[cur.decl]
        /\ \A p \in PkgIDs : \A u \in Uses :
            ( /\ Present(u)
              /\ UseFile(u) \in Syntax(p)
              /\ matches(cur.spec, src.callee[u]) ) =>
                /\ UseCall(u, src.xkind) # NoCall
                /\ HasPrepended(UseCall(u, src.xkind))

\* C3 witness: a successful Rewrite that rewrote the call of the test file, the
\* calls of bar and the recursive call of the target
C3_Witness ==
    /\ ret = "nil"
    /\ src.callee["r1"] = Target(src.kind)
    /\ src.callee["b2"] = Target(src.kind)
    /\ HasPrepended("t1") /\ HasPrepended("b1") /\ HasPrepended("b2")
    /\ HasPrepended("r1")

\* some object of the scope can be reused as the argument
HasReusable(scope) ==
    IsInterface(varSpec.typ) /\ \E o \in scope : Implements(o.typ)

\* C4: a visit to a matched call site whose function scope holds no reusable
\* binding and no binding named VarSpec.Name (the initializer being an
\* expression) puts "<Name> := <InitExpr>" in front of every statement of the
\* enclosing declaration's body, passes VarSpec.Name as the new first argument
\* and leaves the owner package imported in the file.
C4_InitializerInserted ==
    [][(/\ IsVisit
        /\ last'.decl # NoDecl
        /\ last'.call # NoCall
        /\ ParseExprOK(varSpec.InitExpr)
        /\ ~HasReusable(scopes[<<last'.pkg, last'.decl>>])
        /\ \A o \in scopes[<<last'.pkg, last'.decl>>] : o.name # varSpec.Name) =>
            /\ body'[last'.decl] = <<NewStmt>> \o body[last'.decl]
            /\ Head(args'[last'.call]) = varSpec.Name
            /\ Tail(args'[last'.call]) = args[last'.call]
            /\ varSpec.PkgPath \in imports'[UseFile(last'.use)]]_vars

\* C4 witness: the README's bar: "ctx := context.TODO()" first, then foo.F(ctx),
\* and bar.go imports context
C4_Witness ==
    /\ varSpec = DefaultVarSpec
    /\ src.scopeBar = "plain"
    /\ last.op = "visit" /\ last.use = "b1" /\ last.inserted
    /\ body["bar"] = <<Stmt(0, ":=", <<"ctx">>, "context.TODO()"),
                       CallStmt("b1"), CallStmt("b2")>>
    /\ args["b1"] = <<"ctx">> \o pre.args["b1"]
    /\ "context" \in imports["bar.go"]

\* C5: when the variable's type is an interface and the function scope of a
\* visited call site binds a name whose type implements it, the new first
\* argument is such a name, and the visit changes no body and no import list.
C5_ReuseInsertsNothing ==
    [][(/\ IsVisit
        /\ last'.decl # NoDecl
        /\ last'.call # NoCall
        /\ HasReusable(scopes[<<last'.pkg, last'.decl>>])) =>
            /\ \E o \in scopes[<<last'.pkg, last'.decl>>] :
                    Implements(o.typ) /\ Head(args'[last'.call]) = o.name
            /\ Tail(args'[last'.call]) = args[last'.call]
            /\ body' = body
            /\ imports' = imports]_vars

\* C5 witness: bar already holds c, a value that implements context.Context:
\* both calls pass c, bar's body is as it was and bar.go imports nothing new
C5_Witness ==
    /\ ret = "nil"
    /\ src.scopeBar = "impl"
    /\ src.callee["b2"] = Target(src.kind)
    /\ args["b1"] = <<"c">> \o pre.args["b1"]
    /\ args["b2"] = <<"c">> \o pre.args["b2"]
    /\ body["bar"] = pre.body["bar"]
    /\ imports["bar.go"] = {}

\* the initializer statements Rewrite has put into the body of d
Inserted(d) == {i \in 1..Len(body[d]) : body[d][i].id = 0}

\* C6: however the visits were ordered, a successful Rewrite ends with every
\* matched call site holding exactly one prepended argument, the same
\* identifier at every site of one function, and with at most one inserted
\* initializer statement in every function.
C6_OrderIndependent ==
    ret = "nil" =>
        /\ \A u \in Uses :
            (Present(u) /\ matches(cur.spec, src.callee[u])) =>
                LET c == UseCall(u, src.xkind)
                IN  /\ Len(args[c]) = Len(pre.args[c]) + 1
                    /\ Tail(args[c]) = pre.args[c]
        /\ \A u, v \in Uses :
            ( /\ Present(u) /\ matches(cur.spec, src.callee[u])
              /\ Present(v) /\ matches(cur.spec, src.callee[v])
              /\ UseDecl(u, src.xkind) = UseDecl(v, src.xkind) ) =>
                Head(args[UseCall(u, src.xkind)]) = Head(args[UseCall(v, src.xkind)])
        /\ \A d \in Decls : Cardinality(Inserted(d)) <= 1

\* C7: no function body ever holds more than one inserted initializer
\* statement, however many call sites of it were visited and however often
\* Rewrite ran.
C7_AtMostOneInitializer ==
    \A d \in Decls : Cardinality(Inserted(d)) <= 1

\* something of file f changes in the step
FileChanged(f) ==
    \/ (f \in modified') # (f \in modified)
    \/ imports'[f] # imports[f]
    \/ \E c \in Calls : CallFile(c) = f /\ args'[c] # args[c]
    \/ \E d \in Decls : DeclFile(d) = f /\ (params'[d] # params[d] \/ body'[d] # body[d])

\* the spec and the declaration of the Rewrite a step belongs to
StepSpec == IF pc = "callers" THEN cur.spec ELSE cur'.spec
StepDecl == IF pc = "callers" THEN cur.decl ELSE cur'.decl

\* file f holds the matched declaration or a matched use
Relevant(f) ==
    \/ StepDecl # NoDecl /\ DeclFile(StepDecl) = f
    \/ \E u \in Uses : Present(u) /\ UseFile(u) = f /\ matches(StepSpec, src.callee[u])

\* C8: a step changes the arguments, parameters, statements or imports of a
\* file, or its membership of the modified set, only if the file holds the
\* matched declaration or a matched use; a call whose callee does not match
\* the spec keeps its arguments.
C8_OtherFilesUntouched ==
    [][/\ \A f \in Files : FileChanged(f) => Relevant(f)
       /\ \A c \in Calls \cap Uses :
            ~matches(StepSpec, src.callee[c]) => args'[c] = args[c]]_vars

\* C8 witness: Rewrite of foo.F has succeeded and baz.go, which calls the F of
\* another package, is as it was and is not in the modified set
C8_Witness ==
    /\ ret = "nil"
    /\ src.kind = "func"
    /\ src.xkind = "absent"
    /\ modified = {"foo.go", "foo_test.go", "bar.go"}
    /\ args["z1"] = <<"x1">>
    /\ body["baz"] = pre.body["baz"]
    /\ imports["baz.go"] = {}

(***************************************************************************)
(* Failing Rewrites                                                        *)
(***************************************************************************)
\* no loaded package has the spec's path, or none of the symbols the package
\* of that path defines matches the spec
NoTarget(spec) ==
    \/ ~\E p \in PkgIDs : PkgPathOf(p) = spec.PkgPath
    \/ \A p \in PkgIDs : PkgPathOf(p) = spec.PkgPath =>
            \A e \in DefsOf(p, src.kind) : ~matches(FuncSpec(PkgPathOf(p),
                                            spec.TypeName, spec.FuncName), e.sym)

\* C11: a Rewrite whose package cannot be resolved, or in whose package no
\* defined symbol matches, returns an error, changes no argument list,
\* parameter list, body, scope, import list nor the modified set, and does not
\* start rewriteCallers.
C11_FailedRewriteChangesNothing ==
    [][\A spec \in RewriteSpecs : (Rewrite(spec) /\ NoTarget(spec)) =>
            /\ ret' \notin {"nil", "running"}
            /\ pc' = "idle"
            /\ cur' = NoCur
            /\ args' = args /\ params' = params /\ body' = body
            /\ scopes' = scopes /\ imports' = imports /\ modified' = modified]_vars

\* C11 witness: after a successful Rewrite, a second one found no declaration
\* and left the rewritten program exactly as the first had left it
C11_Witness ==
    /\ nRewrites = 2
    /\ ret = "could not find declaration"
    /\ last.op = "decl"
    /\ modified # {}
    /\ Snapshot = pre


(***************************************************************************)
(* Stub pruning                                                            *)
(***************************************************************************)
\* the positions of body b whose statement is "<Name> := context.TODO()" and
\* is the declaration of the scope's object of that name
StubAt(b, scope) ==
    {i \in 1..Len(b) :
        /\ b[i].tok = ":=" /\ b[i].lhs = <<varSpec.Name>>
        /\ b[i].rhs = "context.TODO()"
        /\ b[i].id # 0
        /\ Lookup(scope, varSpec.Name).stmt = b[i].id}

\* body b declares the name n by a short variable declaration
DeclaresName(b, n) ==
    \E i \in 1..Len(b) : b[i].tok = ":=" /\ \E j \in 1..Len(b[i].lhs) : b[i].lhs[j] = n

C20_ModifiedGrowsAsSet ==
    [][/\ modified \subseteq modified'
       /\ modified' \subseteq Files
       /\ Cardinality(modified') <= Cardinality(Files)
       /\ IsDeclRewrite => DeclFile(last'.decl) \in modified'
       /\ (IsDeclRewrite /\ body' # body) =>
                /\ Len(body'[last'.decl]) = Len(body[last'.decl]) - 1
                /\ modified' = modified \cup {DeclFile(last'.decl)}
       /\ (IsVisit /\ args' # args) => CallFile(last'.call) \in modified']_vars

\* C20 witness: a Rewrite that pruned the stub of F and rewrote the call in
\* foo.go for both packages that hold the file has returned; foo.go, marked
\* three times and more, is in the set with the two other files
C20_Witness ==
    /\ nRewrites = 1 /\ ret = "nil"
    /\ src.scopeF = "stub"
    /\ Len(body["F"]) < Len(pre.body["F"]) + 2
    /\ Len(args["r1"]) = Len(pre.args["r1"]) + 2
    /\ modified = {"foo.go", "foo_test.go", "bar.go"}
    /\ Cardinality(modified) = 3

(***************************************************************************)
(* Uses of unexpected shape                                                *)
(***************************************************************************)
\* C22: the visit of a matched use that lies in no call expression or in no
\* function declaration ends Rewrite with an error and changes no tree; no
\* visit follows it, and a Rewrite that returns nil met no such use.
C22_OddUseIsError ==
    [][/\ ( /\ IsVisit
            /\ \/ UseCall(last'.use, src.xkind) = NoCall
               \/ UseDecl(last'.use, src.xkind) = NoDecl ) =>
                /\ ret' \notin {"nil", "running"}
                /\ last'.err = ret'
                /\ pc' = "idle" /\ cur' = NoCur
                /\ args' = args /\ body' = body /\ scopes' = scopes
                /\ \A p \in PkgIDs : Pending(p)' = {}
       /\ (pc = "callers" /\ ret' = "nil") =>
                \A p \in PkgIDs : \A u \in UsesOf(p, src.xkind) :
                    matches(cur.spec, src.callee[u]) =>
                        /\ UseCall(u, src.xkind) # NoCall
                        /\ UseDecl(u, src.xkind) # NoDecl]_vars

\* C22 witness: Rewrite returned the error of a use that is no call; the
\* call beside it in baz.go has its arguments as before
C22_Witness ==
    /\ src.xkind = "nocall"
    /\ last.op = "visit" /\ last.use = "x1"
    /\ ret = "could not find function call expression"
    /\ pc = "idle"
    /\ Len(args["z1"]) = Len(pre.args["z1"])

\* the same for a use in the initializer of a package-level variable
C22_WitnessNoDecl ==
    /\ src.xkind = "nodecl"
    /\ last.op = "visit" /\ last.use = "x1"
    /\ ret = "no surrounding FuncDecl found"
    /\ args["zv"] = pre.args["zv"]

(***************************************************************************)
(* Stub pruning over the shapes a same-named binding can have              *)
(***************************************************************************)
\* the ways the function scope of F, or of the caller bar, can bind the
\* variable's name: not at all, "<n> := context.TODO()", "<n> := \"\"",
\* "<n>, x := context.TODO(), 1", "var <n> = context.TODO()", a parameter;
\* an implementing variable declared after the calls; the name bound to a
\* value of the variable's own type that another function returns
StubShapes ==
    {"plain", "stub", "clash", "multi", "var", "param", "late", "same"}

StubSources ==
    {[kind |-> "func", arity |-> 0, xkind |-> "absent", scopeF |-> sf,
      scopeBar |-> sb, callee |-> f] :
        sf \in StubShapes, sb \in StubShapes, f \in CalleeMaps("func")}

\* the parameter lists, with the parameter of the shape "param"
StubParams(s, vs) ==
    [d \in Decls |->
        IF (d = "F" /\ s.scopeF = "param") \/ (d = "bar" /\ s.scopeBar = "param")
        THEN <<Field(vs.Name, "context", "Context")>>
        ELSE InitParams(s)[d]]

\* the state after a successful Load of such a program
StubInit ==
    /\ varSpec \in VarSpecs
    /\ src \in StubSources
    /\ args = InitArgs(src)
    /\ params = StubParams(src, varSpec)
    /\ body = InitBody(src, varSpec)
    /\ scopes = [k \in ScopeKeys |-> InitScope(src, varSpec, k[2])]
    /\ imports = [f \in Files |->
            IF \/ f = "foo.go" /\ src.scopeF \notin {"plain", "clash", "late", "same"}
               \/ f = "bar.go" /\ src.scopeBar \notin {"plain", "clash", "late", "same"}
            THEN {"context"} ELSE {}]
    /\ modified = {}
    /\ pc = "idle"
    /\ cur = NoCur
    /\ last = NoLast
    /\ ret = "none"
    /\ nRewrites = 0
    /\ pre = Snapshot
    /\ MatchIdle
    /\ ParseIdle
    /\ AppReady

SpecStub == StubInit /\ [][Next]_vars

\* body c is body b without its i-th statement
Without(b, c, i) ==
    c = SubSeq(b, 1, i - 1) \o SubSeq(b, i + 1, Len(b))

\* C23: a declaration rewrite changes no body but the matched declaration's,
\* and that one either not at all or by the removal of one statement, which
\* then is "<Name> := context.TODO()" with the single target <Name>, bound in
\* the function scope by that statement and not as a parameter, the variable
\* being context.Context; a visit removes no statement from any body.
C23_PruneOnlyTheStub ==
    [][/\ IsDeclRewrite =>
            LET d == last'.decl
                b == body[d]
            IN  /\ \A e \in Decls \ {d} : body'[e] = body[e]
                /\ \/ body'[d] = b
                   \/ \E i \in 1..Len(b) :
                        /\ Without(b, body'[d], i)
                        /\ varSpec.PkgPath = "context"
                        /\ varSpec.TypeName = "Context"
                        /\ b[i].tok = ":="
                        /\ b[i].lhs = <<varSpec.Name>>
                        /\ b[i].rhs = "context.TODO()"
                        /\ Lookup(scopes[<<last'.pkg, d>>], varSpec.Name).stmt = b[i].id
                        /\ b[i].id # 0
       /\ IsVisit =>
            \A d \in Decls :
                \/ body'[d] = body[d]
                \/ body'[d] = <<NewStmt>> \o body[d]
       /\ (~IsDeclRewrite /\ ~IsVisit) => body' = body]_vars

\* C23 witness: the target's name is bound by a two-target declaration with
\* context.TODO() and the caller bar holds the very stub; Rewrite has
\* returned nil and neither body lost a statement
C23_Witness ==
    /\ varSpec = DefaultVarSpec
    /\ src.scopeF = "multi" /\ src.scopeBar = "stub"
    /\ nRewrites = 1 /\ ret = "nil"
    /\ Head(params["F"]) = NewField
    /\ \E i \in 1..Len(body["F"]) : body["F"][i] = pre.body["F"][1]
    /\ \E i \in 1..Len(body["bar"]) :
            body["bar"][i] = Stmt(1, ":=", <<"ctx">>, "context.TODO()")
    /\ Len(args["b1"]) = 1

\* the name is a parameter of the target: nothing is removed
C23_WitnessParam ==
    /\ varSpec = DefaultVarSpec
    /\ src.scopeF = "param"
    /\ pc = "callers" /\ cur.visited = {}
    /\ body["F"] = pre.body["F"]
    /\ Len(params["F"]) = 2

\* the variable is not context.Context: the stub stays
C23_WitnessOtherType ==
    /\ varSpec = QuxVarSpec
    /\ src.scopeF = "stub"
    /\ pc = "callers" /\ cur.visited = {}
    /\ body["F"] = pre.body["F"]
    /\ body["F"][1] = Stmt(1, ":=", <<"t">>, "context.TODO()")

\* C25: a call expression whose argument list changes is a call of a function
\* that matches the spec; the call around a matched use that stands as an
\* argument keeps its arguments.
C25_OnlyCallsOfTheTarget ==
    [][\A c \in Calls :
            args'[c] # args[c] => matches(cur.spec, CalleeOf(src, c))]_vars

(***************************************************************************)
(* A file that belongs to two loaded packages                              *)
(***************************************************************************)
\* C26: since the Rewrite began, no call expression has received more than
\* one argument and no body more than one statement.
C26_OncePerRewrite ==
    /\ \A c \in Calls : Len(args[c]) <= Len(pre.args[c]) + 1
    /\ \A d \in Decls : Len(body[d]) <= Len(pre.body[d]) + 1

(***************************************************************************)
(* Syntax and scope of the rewritten declaration                           *)
(***************************************************************************)
\* the parameter list ps declares the name n
HasParam(ps, n) == \E i \in 1..Len(ps) : ps[i].name = n

\* C24: while rewriteCallers runs, the scope of the rewritten declaration
\* binds the new parameter's name, and no body whose parameter list declares
\* the name holds the inserted statement "<Name> := <InitExpr>".
C24_ParamBoundInScope ==
    /\ pc = "callers" =>
            \A p \in PkgIDs : <<p, cur.decl>> \in ScopeKeys =>
                Declared(scopes[<<p, cur.decl>>], varSpec.Name)
    /\ \A d \in Decls :
            HasParam(params[d], varSpec.Name) =>
                \A i \in 1..Len(body[d]) : body[d][i] # NewStmt

(***************************************************************************)
(* The binding a call site passes                                          *)
(***************************************************************************)
\* the type t can stand for the variable
FitsVar(t) == t = varSpec.typ \/ (IsInterface(varSpec.typ) /\ Implements(t))

\* C27: after Rewrite has returned nil, the first argument of every matched
\* call names an object of the scope of the function around it, and that
\* object's type is the variable's type or implements it.
C27_PassedNameHasTheType ==
    (pc = "idle" /\ ret = "nil") =>
        \A p \in PkgIDs : \A u \in UsesOf(p, src.xkind) :
            matches(cur.spec, src.callee[u]) =>
                LET c == UseCall(u, src.xkind)
                    d == UseDecl(u, src.xkind)
                    o == Lookup(scopes[<<p, d>>], Head(args[c]))
                IN  o # NoObj /\ FitsVar(o.typ)

\* C28: a variable passed in place of a new one is declared before the call:
\* it is a parameter, or its declaring statement precedes the statement of the
\* call in the body.
C28_ReusedNameIsVisible ==
    [][(IsVisit /\ last'.usedExisting) =>
            LET d == last'.decl
                b == body[d]
                o == Lookup(scopes[<<last'.pkg, d>>], last'.varName)
            IN  \/ o.stmt = 0
                \/ HasParam(params[d], last'.varName)
                \/ \E i, j \in 1..Len(b) :
                        /\ i < j
                        /\ b[i].id = o.stmt
                        /\ b[j] = CallStmt(last'.call)]_vars

(***************************************************************************)
(* A call site whose handling fails                                        *)
(***************************************************************************)
\* C29: the visit that ends Rewrite with the initializer's parse error leaves
\* the scopes, the bodies and the arguments of the calls as they were before
\* the visit.
C29_FailedVisitChangesNothing ==
    [][(IsVisit /\ last'.err = "parsing InitExpr") =>
            /\ scopes' = scopes
            /\ body' = body
            /\ args' = args]_vars

(***************************************************************************)
(* Imports                                                                 *)
(***************************************************************************)
\* C30: the imports of a file change only in the step that gives a
\* declaration of the file the new parameter or in a visit that inserts the
\* initializer statement into a body of the file.
C30_ImportOnlyWithDeclaration ==
    [][\A f \in Files :
            imports'[f] # imports[f] =>
                \/ IsDeclRewrite /\ DeclFile(last'.decl) = f
                \/ IsVisit /\ last'.inserted /\ UseFile(last'.use) = f]_vars

(***************************************************************************)
(* Load and Each: the library as a client may call it                      *)
(***************************************************************************)
\* what can be wrong with the packages asked for: a compile error in the
\* requested package bar, a requested path that names no package, the
\* variable's package not resolvable, the variable's type not in its package
Faults == {"none", "compile", "unresolved", "novar", "notype"}

\* what packages.Load returns for the patterns.  By its contract the errors
\* of a single package are recorded in that package's Errors and Load still
\* returns nil; a path that names no package is either such an error or a
\* failure of the query.
PackagesLoad(fault) ==
    IF fault = "unresolved" THEN {"nil", "packages.Load failed"} ELSE {"nil"}

\* the specs a client calls Rewrite with: those above and foo's G, a function
\* that is declared and never called
ClientSpecs == RewriteSpecs \cup {FuncSpec(PathFoo, Empty, NameG)}

\* the programs Load is called on
AppSources ==
    {s \in Sources : /\ s.kind = "func" /\ s.arity = 0
                     /\ s.xkind \in {"absent", "nocall"}
                     /\ s.scopeF = "plain" /\ s.scopeBar \in {"plain", "impl"}}

\* before Load: the source files as they are on disk, nothing loaded
AppInit ==
    /\ varSpec \in {DefaultVarSpec, BadInitVarSpec}
    /\ src \in AppSources
    /\ args = InitArgs(src)
    /\ params = InitParams(src)
    /\ body = InitBody(src, varSpec)
    /\ scopes = [k \in ScopeKeys |-> InitScope(src, varSpec, k[2])]
    /\ imports = [f \in Files |-> {}]
    /\ modified = {}
    /\ pc = "idle"
    /\ cur = NoCur
    /\ last = NoLast
    /\ ret = "none"
    /\ nRewrites = 0
    /\ pre = Snapshot
    /\ MatchIdle
    /\ ParseIdle
    /\ env \in Faults
    /\ argv = NoArgv
    /\ loaded = "no"
    /\ each = EachIdle
    /\ called = <<>>
    /\ mainPc = "none"

\* App.Load: the modified set is made empty, packages.Load fills app.pkgs, the
\* variable's package and type are resolved
Load ==
    /\ loaded = "no"
    /\ pc = "idle"
    /\ modified' = {}
    /\ \E r \in PackagesLoad(env) :
        loaded' = IF r # "nil" THEN r
                  ELSE IF env = "novar" THEN "cannot resolve package"
                  ELSE IF env = "notype" THEN "cannot find type"
                  ELSE "nil"
    /\ UNCHANGED <<varSpec, src, args, params, body, scopes, imports,
                   pc, cur, last, ret, nRewrites, pre, mIn, mOut, pIn, pOut,
                   env, argv, each, called>>

\* a plausible slip: the loop ends after its first file
RemainingNone(left, f) == {}

\* the keys of app.modified the range has still to yield
Remaining(left, f) == left \ {f}

\* a plausible slip: an error is dropped and the loop goes on
NeverStops(o) == FALSE

\* the iteration returns: format.Node or format.Source failed, or the callback
\* returned an error
Stops(o) == o # "ok"

\* what an iteration of Each can meet
Outcomes == {"ok", "format", "callback"}

\* Each is called: the range over app.modified begins
EachStart ==
    /\ loaded = "nil"
    /\ pc = "idle"
    /\ each.pc # "loop"
    /\ each.n < MaxEach
    /\ each' = [EachIdle EXCEPT !.pc = "loop", !.files = modified,
                                !.left = modified, !.n = each.n + 1]
    /\ called' = <<>>
    /\ UNCHANGED <<varSpec, src, args, params, body, scopes, imports, modified,
                   pc, cur, last, ret, nRewrites, pre, mIn, mOut, pIn, pOut,
                   env, argv, loaded, mainPc>>

\* one iteration of Each's loop, for the file f the range yields: the file is
\* formatted, then the callback is invoked with its name and content
EachFile(f, o) ==
    /\ each.pc = "loop"
    /\ f \in each.left
    /\ called' = IF o = "format" THEN called ELSE Append(called, f)
    /\ each' = IF Stops(o)
               THEN [each EXCEPT !.pc = "done", !.ret = o, !.k = @ + 1,
                                 !.at = f, !.o = o]
               ELSE [each EXCEPT !.left = Remaining(@, f), !.k = @ + 1,
                                 !.at = f, !.o = o]
    /\ UNCHANGED <<varSpec, src, args, params, body, scopes, imports, modified,
                   pc, cur, last, ret, nRewrites, pre, mIn, mOut, pIn, pOut,
                   env, argv, loaded, mainPc>>

\* the range is over: Each returns nil
EachReturn ==
    /\ each.pc = "loop"
    /\ each.left = {}
    /\ each' = [each EXCEPT !.pc = "done", !.ret = "nil"]
    /\ UNCHANGED <<varSpec, src, args, params, body, scopes, imports, modified,
                   pc, cur, last, ret, nRewrites, pre, mIn, mOut, pIn, pOut,
                   env, argv, loaded, called, mainPc>>

AppNext ==
    \/ Load /\ UNCHANGED mainPc
    \/ \E spec \in ClientSpecs : loaded = "nil" /\ each.pc # "loop" /\ Rewrite(spec)
    \/ \E p \in CurrentPkg : \E u \in Pending(p) : Visit(p, u)
    \/ Return
    \/ EachStart
    \/ \E f \in each.left : \E o \in Outcomes : EachFile(f, o)
    \/ EachReturn

SpecApp == AppInit /\ [][AppNext]_vars

\* the elements of a sequence
Range(q) == {q[i] : i \in 1..Len(q)}

\* C13: an Each that returned nil invoked the callback exactly once for every
\* file that was in the modified set and for no other file; at no time was the
\* callback invoked twice for a file or for a file outside the set; with an
\* empty modified set it was not invoked at all.
C13_EachOncePerModifiedFile ==
    /\ Range(called) \subseteq each.files
    /\ \A i, j \in 1..Len(called) : called[i] = called[j] => i = j
    /\ (each.pc = "done" /\ each.ret = "nil") =>
            /\ Range(called) = each.files
            /\ Len(called) = Cardinality(each.files)
    /\ (each.pc # "idle" /\ each.files = {}) => called = <<>>
    /\ each.pc = "loop" => each.files = modified

\* C13 witness: after a successful Rewrite, Each has returned nil and the
\* callback was invoked for the three modified files
C13_Witness ==
    /\ each.pc = "done" /\ each.ret = "nil"
    /\ ret = "nil"
    /\ modified = {"foo.go", "foo_test.go", "bar.go"}
    /\ Len(called) = 3

\* Each has returned nil after Load alone: no callback
C13_WitnessEmpty ==
    /\ each.pc = "done" /\ each.ret = "nil"
    /\ nRewrites = 0
    /\ called = <<>>

\* C14: an iteration in which formatting fails or the callback returns an
\* error ends Each with that error; after a formatting failure the callback was
\* not invoked for the file, and once Each has returned the callback is not
\* invoked again.
C14_EachStopsAtFirstError ==
    [][/\ (each.pc = "loop" /\ each'.k = each.k + 1 /\ each'.o # "ok") =>
            /\ each'.pc = "done"
            /\ each'.ret = each'.o
            /\ each'.o = "format" => called' = called
            /\ each'.o = "callback" => called' = Append(called, each'.at)
       /\ (each.pc = "done" /\ each'.pc = "done") => called' = called]_vars

\* C14 witness: the callback failed for the first of three modified files and
\* Each returned its error with two files never handed to the callback
C14_Witness ==
    /\ each.pc = "done" /\ each.ret = "callback"
    /\ Cardinality(each.files) = 3
    /\ Len(called) = 1
    /\ called[1] = each.at

\* C16 as stated: with an initializer that is no expression, a Rewrite that
\* has returned did not return nil.
C16_InvalidInitExprIsError ==
    (varSpec = BadInitVarSpec /\ pc = "idle" /\ nRewrites > 0) => ret # "nil"

\* C16: with an initializer that is no expression, the visit of a call site
\* that needs the initializer (no existing variable is passed and the
\* function's scope does not hold the variable's name) ends Rewrite with the
\* parse error and inserts no statement; Rewrite returns that error in no
\* other case.
C16_NeededInitExprIsError ==
    [][/\ ( /\ IsVisit
            /\ varSpec = BadInitVarSpec
            /\ last'.call # NoCall /\ last'.decl # NoDecl
            /\ ~last'.usedExisting
            /\ ~Declared(scopes[<<last'.pkg, last'.decl>>], varSpec.Name) ) =>
                /\ ret' = "parsing InitExpr"
                /\ pc' = "idle"
                /\ body' = body
       /\ (ret' = "parsing InitExpr" /\ ret # ret') =>
                /\ IsVisit
                /\ varSpec = BadInitVarSpec
                /\ ~Declared(scopes[<<last'.pkg, last'.decl>>], varSpec.Name)]_vars

\* C16 witness: the first Rewrite of F failed at a call site on the
\* initializer
C16_Witness ==
    /\ varSpec = BadInitVarSpec
    /\ nRewrites = 1
    /\ ret = "parsing InitExpr"
    /\ last.op = "visit" /\ last.err = "parsing InitExpr"

\* the first Rewrite of G, which nothing calls, returned nil with the same
\* initializer
C16_WitnessNil ==
    /\ varSpec = BadInitVarSpec
    /\ nRewrites = 1
    /\ ret = "nil"
    /\ modified = {"foo.go"}
    /\ Head(params["G"]) = NewField

\* C19: when a requested package cannot be resolved or holds a compile error,
\* Load has returned an error, and Rewrite has not been run on the loaded
\* program.
C19_LoadFailsOnPackageError ==
    (env \in {"compile", "unresolved"} /\ loaded # "no") =>
        /\ loaded # "nil"
        /\ nRewrites = 0

(***************************************************************************)
(* A spec that more than one definition matches                            *)
(***************************************************************************)
\* the specs of foo's init, which foo.go declares twice, and of foo's F
DupSpecs == {FuncSpec(PathFoo, Empty, NameInit), FuncSpec(PathFoo, Empty, NameF)}

\* the loaded programs: free functions without parameters, the default variable
DupInit ==
    /\ Init
    /\ varSpec = DefaultVarSpec
    /\ src \in AppSources

DupNext ==
    \/ \E spec \in DupSpecs : Rewrite(spec)
    \/ \E p \in CurrentPkg : \E u \in Pending(p) : Visit(p, u)
    \/ Return

SpecDup == DupInit /\ [][DupNext]_vars

\* exactly the declaration d receives the new parameter in the step
OnlyParamOf(d) ==
    /\ params'[d] = <<NewField>> \o params[d]
    /\ \A e \in Decls \ {d} : params'[e] = params[e]

\* C21 as stated: the declaration rewritten is that of the last matching
\* entry in the order of the iteration.
C21_LastMatchRewritten ==
    [][IsDeclRewrite =>
            /\ last'.decl = last'.order[Len(last'.order)].decl
            /\ OnlyParamOf(last'.decl)]_vars

\* C21: the declaration rewritten is that of the first matching entry in
\* the order of the iteration, whichever entry of the matching ones that is;
\* that declaration and no other receives the new parameter.
C21_FirstMatchRewritten ==
    [][IsDeclRewrite =>
            /\ last'.order \in Orders(MatchingDefs(cur'.spec, last'.pkg))
            /\ last'.decl = last'.order[1].decl
            /\ OnlyParamOf(last'.decl)]_vars

\* C21 witness: foo's two init functions both match; the iteration met I2
\* first and I2 alone has the parameter
C21_Witness ==
    /\ pc = "callers"
    /\ Len(last.order) = 2
    /\ last.order[1].decl = "I2" /\ last.order[2].decl = "I1"
    /\ cur.decl = "I2"
    /\ params["I2"] = <<NewField>>
    /\ params["I1"] = <<>>

\* the other order: I1 alone has the parameter
C21_WitnessOther ==
    /\ pc = "callers"
    /\ Len(last.order) = 2
    /\ last.order[1].decl = "I1"
    /\ params["I1"] = <<NewField>>
    /\ params["I2"] = <<>>

(***************************************************************************)
(* The command: goctxize [-var spec] path/to/pkg[.Type].Func [<pkg>...]    *)
(***************************************************************************)
\* the default of the -var flag
DefaultVarString ==
    <<"c", "t", "x", " ", "c", "o", "n", "t", "e", "x", "t", ".", "C",
      "o", "n", "t", "e", "x", "t", " ", "=", " ", "c", "o", "n", "t",
      "e", "x", "t", ".", "T", "O", "D", "O", "(", ")">>

\* a -var whose initializer is no expression
BadInitVarString ==
    <<"c", "t", "x", " ", "c", "o", "n", "t", "e", "x", "t", ".", "C",
      "o", "n", "t", "e", "x", "t", " ", "=", " ", "c", "o", "n", "t",
      "e", "x", "t", ".", "T", "O", "D", "O", "(">>

\* a -var without a package path
NoPathVarString == <<"c", "t", "x", " ", "T", " ", "=", " ", "0">>

MainVarStrings == {DefaultVarString, BadInitVarString, NoPathVarString}

\* the arguments: none, foo's F and the packages bar and baz, a function of
\* no declaration, a first argument that is no function spec
MainArgLists ==
    {<<>>,
     <<<<"a", ".", "F">>, PathBar, PathBaz>>,
     <<<<"a", ".", "T", ".", "F">>, PathBar, PathBaz>>,
     <<<<"a">>, PathBar>>}

RECURSIVE Flatten(_)
Flatten(q) == IF q = <<>> THEN "" ELSE Head(q) \o Flatten(Tail(q))

\* the variable a parsed -var stands for, once Load has resolved its package
\* and type
ResolveVar(x) ==
    LET r == ParseVarSpec(x)
        same(vs) == /\ vs.Name = Flatten(r.Name)
                    /\ vs.PkgPath = Flatten(r.PkgPath)
                    /\ vs.TypeName = Flatten(r.TypeName)
                    /\ vs.InitExpr = Flatten(r.InitExpr)
    IN  IF r.ok /\ \E vs \in VarSpecs : same(vs)
        THEN CHOOSE vs \in VarSpecs : same(vs)
        ELSE DefaultVarSpec

\* the spec main hands to Rewrite
MainSpec ==
    LET r == ParseFuncSpec(argv.args[1])
    IN  FuncSpec(r.PkgPath, r.TypeName, r.FuncName)

\* a plausible slip: the error is dropped and main goes on
IgnoreError(err, next) == next

\* if err != nil { log.Fatal(err) }
OnError(err, next) == IF err # "nil" THEN "fatal" ELSE next

\* the process starts: the program on disk, the command line given
MainInit ==
    /\ argv \in [var : MainVarStrings, args : MainArgLists]
    /\ varSpec = ResolveVar(argv.var)
    /\ src \in AppSources
    /\ args = InitArgs(src)
    /\ params = InitParams(src)
    /\ body = InitBody(src, varSpec)
    /\ scopes = [k \in ScopeKeys |-> InitScope(src, varSpec, k[2])]
    /\ imports = [f \in Files |-> {}]
    /\ modified = {}
    /\ pc = "idle"
    /\ cur = NoCur
    /\ last = NoLast
    /\ ret = "none"
    /\ nRewrites = 0
    /\ pre = Snapshot
    /\ MatchIdle
    /\ ParseIdle
    /\ env \in Faults
    /\ loaded = "no"
    /\ each = EachIdle
    /\ called = <<>>
    /\ mainPc = "start"

\* flag.Parse, ParseVarSpec, the usage exit, ParseFuncSpec
MainParse ==
    /\ mainPc = "start"
    /\ mainPc' = IF ~ParseVarSpec(argv.var).ok THEN "fatal"
                 ELSE IF Len(argv.args) = 0 THEN "usage"
                 ELSE IF ~ParseFuncSpec(argv.args[1]).ok THEN "fatal"
                 ELSE "load"
    /\ UNCHANGED <<avars, mvars, env, argv, loaded, each, called>>

\* err = app.Init(); fatal on error
MainLoad ==
    /\ mainPc = "load"
    /\ Load
    /\ mainPc' = OnError(loaded', "rewrite")

\* err = app.Rewrite(spec) is called
MainRewrite ==
    /\ mainPc = "rewrite"
    /\ nRewrites = 0
    /\ Rewrite(MainSpec)

\* app.Rewrite has returned; fatal on error
MainRewritten ==
    /\ mainPc = "rewrite"
    /\ pc = "idle"
    /\ nRewrites = 1
    /\ mainPc' = OnError(ret, "each")
    /\ UNCHANGED <<avars, mvars, env, argv, loaded, each, called>>

\* err = app.Each(WriteFile) is called
MainEach ==
    /\ mainPc = "each"
    /\ each.pc = "idle"
    /\ EachStart

\* app.Each has returned; fatal on error, else main returns
MainExit ==
    /\ mainPc = "each"
    /\ each.pc = "done"
    /\ mainPc' = OnError(each.ret, "exit")
    /\ UNCHANGED <<avars, mvars, env, argv, loaded, each, called>>

MainNext ==
    \/ MainParse
    \/ MainLoad
    \/ MainRewrite
    \/ \E p \in CurrentPkg : \E u \in Pending(p) : Visit(p, u)
    \/ Return
    \/ MainRewritten
    \/ MainEach
    \/ \E f \in each.left : \E o \in Outcomes : EachFile(f, o)
    \/ EachReturn
    \/ MainExit

SpecMain == MainInit /\ [][MainNext]_vars

\* C15: in a run of the command the emit step has started, or the callback has
\* been invoked for a file, only when loading and Rewrite have both returned
\* nil; a run whose loading or Rewrite returned an error ends without the
\* callback invoked for any file.
C15_EmitOnlyAfterSuccess ==
    mainPc # "none" =>
        /\ (each.pc # "idle" \/ called # <<>>) =>
                /\ loaded = "nil"
                /\ nRewrites = 1 /\ pc = "idle" /\ ret = "nil"
        /\ (loaded \notin {"no", "nil"} \/ ret \notin {"none", "running", "nil"}) =>
                /\ called = <<>>
                /\ each.pc = "idle"
                /\ mainPc \in {"load", "rewrite", "fatal"}

\* C15 witness: Rewrite failed on the initializer after it had rewritten the
\* declaration; main ended with files modified in memory and none written
C15_Witness ==
    /\ mainPc = "fatal"
    /\ loaded = "nil"
    /\ ret \notin {"none", "running", "nil"}
    /\ modified # {}
    /\ called = <<>>

\* the run that succeeds: three files written, exit status 0
C15_WitnessEmit ==
    /\ mainPc = "exit"
    /\ loaded = "nil" /\ ret = "nil"
    /\ Len(called) = 3

(***************************************************************************)
(* Matcher harness: Init draws a spec and a function symbol, the action    *)
(* applies FuncSpec.matches to them.                                       *)
(***************************************************************************)
\* the application's variables in the harness: one loaded program, untouched
AppIdle ==
    /\ varSpec = DefaultVarSpec
    /\ src = CHOOSE s \in Sources : TRUE
    /\ args = InitArgs(src)
    /\ params = InitParams(src)
    /\ body = InitBody(src, varSpec)
    /\ scopes = [k \in ScopeKeys |-> InitScope(src, varSpec, k[2])]
    /\ imports = [f \in Files |-> {}]
    /\ modified = {}
    /\ pc = "idle"
    /\ cur = NoCur
    /\ last = NoLast
    /\ ret = "none"
    /\ nRewrites = 0
    /\ pre = Snapshot
    /\ AppReady

MatchInit ==
    /\ mIn \in [spec : FuncSpecs, fn : Funcs]
    /\ mOut = <<>>
    /\ ParseIdle
    /\ AppIdle

CallMatches ==
    /\ mOut = <<>>
    /\ mOut' = <<matches(mIn.spec, mIn.fn)>>
    /\ UNCHANGED <<mIn, pIn, pOut>>
    /\ UNCHANGED avars
    /\ UNCHANGED evars

MatchNext == CallMatches

SpecMatch == MatchInit /\ [][MatchNext]_vars

\* the same method declared with the other receiver form
FlipRecv(f) ==
    [f EXCEPT !.recv = IF f.recv = "pointer" THEN "value" ELSE "pointer"]

\* C9: for a spec naming a receiver type, matches answers for a method exactly
\* whether package, receiver type name and method name all agree, and gives the
\* same answer for the pointer-receiver and the value-receiver declaration.
C9_PointerValueSame ==
    (mOut # <<>> /\ mIn.fn.recv # "none" /\ mIn.spec.TypeName # Empty) =>
        /\ mOut[1] = matches(mIn.spec, FlipRecv(mIn.fn))
        /\ mOut[1] = ( /\ mIn.fn.pkg = mIn.spec.pkg
                    /\ mIn.fn.typ = mIn.spec.TypeName
                    /\ mIn.fn.name = mIn.spec.FuncName )

\* C9 witness: pkg.T.M matched a pointer-receiver declaration func (*T) M
C9_Witness ==
    /\ mOut = <<TRUE>>
    /\ mIn.fn.recv = "pointer"
    /\ mIn.spec.TypeName = <<"T">>
    /\ mIn.spec.FuncName = <<"M">>

\* C10: a spec with a receiver type name never matches a function without a
\* receiver, and a spec without one never matches a method.
C10_KindsNeverCross ==
    (mOut # <<>>) =>
        /\ (mIn.spec.TypeName # Empty /\ mIn.fn.recv = "none") => mOut = <<FALSE>>
        /\ (mIn.spec.TypeName = Empty /\ mIn.fn.recv # "none") => mOut = <<FALSE>>

(***************************************************************************)
(* Parser harness: Init draws the function and its argument, the action    *)
(* applies it.                                                             *)
(***************************************************************************)
FuncChars == {"a", "2", ".", "/"}
FuncInputs == SeqsUpTo(FuncChars, MaxFuncLen) \cup {<<>>}

VarChars == {"a", ".", " ", "="}
RawVarInputs == SeqsUpTo(VarChars, MaxRawLen)

Spaces(n) == [i \in 1..n |-> Space]

\* the pieces a variable spec is composed of: name, path, type, expression,
\* the spaces between them and around the whole
VarPaths == SeqsUpTo({"a", ".", "/"}, MaxVarPath)
VarExprs == {<<"a">>, <<"a", "=", "a">>, <<"a", " ", "a">>, <<"a", ".", "a", "(", ")">>}
VarParts ==
    [n : {<<"a">>, <<"a", "_">>}, p : VarPaths, t : {<<"a">>, <<"_", "a">>},
     e : VarExprs, s1 : 1..2, s2 : 0..1, s3 : 0..1, around : 0..1]

\* "<n> <p>.<t> = <e>"
BuildVar(v) ==
    Spaces(v.around) \o v.n \o Spaces(v.s1) \o v.p \o Dot \o v.t \o Spaces(v.s2)
        \o <<"=">> \o Spaces(v.s3) \o v.e \o Spaces(v.around)

ParseInit ==
    /\ pIn \in {[fn |-> "ParseFuncSpec", s |-> x, parts |-> <<>>] : x \in FuncInputs}
          \cup {[fn |-> "ParseVarSpec", s |-> x, parts |-> <<>>] : x \in RawVarInputs}
          \cup {[fn |-> "ParseVarSpec", s |-> BuildVar(v), parts |-> <<v>>] : v \in VarParts}
    /\ pOut = <<>>
    /\ MatchIdle
    /\ AppIdle

CallParseFuncSpec ==
    /\ pIn.fn = "ParseFuncSpec"
    /\ pOut = <<>>
    /\ pOut' = <<ParseFuncSpec(pIn.s)>>
    /\ UNCHANGED <<pIn, mIn, mOut>>
    /\ UNCHANGED avars
    /\ UNCHANGED evars

CallParseVarSpec ==
    /\ pIn.fn = "ParseVarSpec"
    /\ pOut = <<>>
    /\ pOut' = <<ParseVarSpec(pIn.s)>>
    /\ UNCHANGED <<pIn, mIn, mOut>>
    /\ UNCHANGED avars
    /\ UNCHANGED evars

ParseNext == CallParseFuncSpec \/ CallParseVarSpec

SpecParse == ParseInit /\ [][ParseNext]_vars

\* t is "<letters><spaces><no spaces>.<letters><spaces>=<spaces><something>"
VarForm(t) ==
    \E i \in 1..Len(t) : \E a \in (i + 2)..Len(t) : \E d \in (a + 1)..Len(t) :
    \E e \in (d + 1)..Len(t) : \E q \in (e + 1)..Len(t) : \E r \in (q + 1)..Len(t) :
        /\ LetterRun(t, 1, i)
        /\ \A k \in (i + 1)..(a - 1) : t[k] = Space
        /\ \A k \in a..(d - 1) : t[k] # Space
        /\ t[d] = "."
        /\ LetterRun(t, d + 1, e)
        /\ \A k \in (e + 1)..(q - 1) : t[k] = Space
        /\ t[q] = "="
        /\ \A k \in (q + 1)..(r - 1) : t[k] = Space

\* C17: ParseVarSpec of "<n> <p>.<t> = <e>", composed of a name and a type
\* name of letters and underscores, a path of letters, dots and slashes and
\* an expression, with any spacing, returns {n, p, t, e}, so the type name is
\* what follows the last dot of the left-hand side; and ParseVarSpec returns
\* an error exactly for the strings that are not of that form.
C17_VarSpecSplitsAtLastDot ==
    (pIn.fn = "ParseVarSpec" /\ pOut # <<>>) =>
        /\ pIn.parts # <<>> =>
            pOut[1] = [ok |-> TRUE, Name |-> pIn.parts[1].n, PkgPath |-> pIn.parts[1].p,
                       TypeName |-> pIn.parts[1].t, InitExpr |-> pIn.parts[1].e]
        /\ pOut[1].ok <=> VarForm(TrimSpace(pIn.s))

\* C17 witness: a spec "a_ a.a._a = a.a()" with a dotted path was parsed into the
\* path a.a and the type _a
C17_Witness ==
    /\ pIn.fn = "ParseVarSpec"
    /\ pIn.parts # <<>>
    /\ pOut # <<>>
    /\ pOut[1].ok
    /\ pOut[1].Name = <<"a", "_">>
    /\ pOut[1].PkgPath = <<"a", ".", "a">>
    /\ pOut[1].TypeName = <<"_", "a">>
    /\ pOut[1].InitExpr = <<"a", ".", "a", "(", ")">>

\* a malformed variable spec (no dot on the left-hand side) gave an error
C17_WitnessError ==
    /\ pIn.s = <<"a", " ", "a", "=", "a">>
    /\ pOut = <<NoSpec>>

\* the pieces of x between its dots
RECURSIVE SplitDots(_)
SplitDots(x) ==
    LET ds == {i \in 1..Len(x) : x[i] = "."}
    IN  IF ds = {} THEN <<x>>
        ELSE LET d == CHOOSE i \in ds : \A j \in ds : i <= j
             IN  <<SubSeq(x, 1, d - 1)>> \o SplitDots(SubSeq(x, d + 1, Len(x)))

\* the pieces from..to put together with dots again
RECURSIVE JoinDots(_, _, _)
JoinDots(segs, from, to) ==
    IF from > to THEN <<>>
    ELSE IF from = to THEN segs[from]
    ELSE segs[from] \o Dot \o JoinDots(segs, from + 1, to)

\* an identifier: a letter or underscore, then letters, digits, underscores
IsIdent(seg) ==
    /\ seg # <<>>
    /\ IsLetter(seg[1])
    /\ \A i \in 1..Len(seg) : IsLetter(seg[i]) \/ seg[i] \in Digits

\* C18: ParseFuncSpec returns an error for a string with fewer than two
\* dot-separated segments; for a string whose last segment is an identifier
\* with a non-empty rest in front of it, FuncName is the last segment, TypeName
\* the segment before it when that is an identifier with a non-empty path in
\* front (else empty), and PkgPath everything in front of those.
C18_FuncSpecSegments ==
    (pIn.fn = "ParseFuncSpec" /\ pOut # <<>>) =>
        LET segs == SplitDots(pIn.s)
            n == Len(segs)
            typed == n >= 3 /\ IsIdent(segs[n - 1]) /\ JoinDots(segs, 1, n - 2) # <<>>
        IN  /\ n < 2 => ~pOut[1].ok
            /\ (n >= 2 /\ IsIdent(segs[n]) /\ JoinDots(segs, 1, n - 1) # <<>>) =>
                /\ pOut[1].ok
                /\ pOut[1].FuncName = segs[n]
                /\ pOut[1].TypeName = (IF typed THEN segs[n - 1] ELSE <<>>)
                /\ pOut[1].PkgPath = (IF typed THEN JoinDots(segs, 1, n - 2)
                                      ELSE JoinDots(segs, 1, n - 1))

====
